---- MODULE Spec2Model ----
(***************************************************************************)
(* Task management platform: the project, membership, task and comment     *)
(* controllers of the REST backend, over the relational store they use.    *)
(*                                                                         *)
(* Rows are records, tables are sets of rows.  Every handler is an         *)
(* operator that computes the response from the request and the stored     *)
(* rows, and an action that applies the handler's writes and records the   *)
(* request and the response in `last`.                                     *)
(*                                                                         *)
(* Conventions                                                             *)
(*   - ids are positive integers handed out in creation order (the store   *)
(*     uses fresh uuids: an id is never reused); BadId is a string that    *)
(*     is not a uuid at all;                                               *)
(*   - NULL is a null column or value, Absent a field the request does   *)
(*     not carry (undefined);                                              *)
(*   - a text is a sequence of one-character strings, <<>> the empty or    *)
(*     absent text; an optional text is <<>> (absent) or <<text>>.         *)
(***************************************************************************)
EXTENDS Integers, Sequences, FiniteSets, TLC

\* ---------------------------------------------------------------- bounds
\* rows ever inserted, over all tables; addMember calls in flight
MaxRows == 3
MaxCalls == 2

\* ------------------------------------------------------- program constants
NameMinLen == 3
NameMaxLen == 100
TitleMinLen == 3
TitleMaxLen == 200

NULL == "null"
Absent == "undefined"
BadId == 0

Users == {"u1", "u2", "u3"}
NoUser == "not-a-uuid"

ProjectStatuses == {"ACTIVE", "COMPLETED", "ARCHIVED"}
TaskStatuses == {"TODO", "IN_PROGRESS", "IN_REVIEW", "DONE"}
Priorities == {"LOW", "MEDIUM", "HIGH", "URGENT"}

DefaultProjectStatus == "ACTIVE"
DefaultTaskStatus == "TODO"

\* ------------------------------------------------------------------ texts
None == <<>>
Some(x) == <<x>>

toLowerCase(c) ==
  CASE c = "A" -> "a"
    [] c = "F" -> "f"
    [] c = "I" -> "i"
    [] c = "P" -> "p"
    [] OTHER -> c

Lower(t) == [i \in 1..Len(t) |-> toLowerCase(t[i])]

\* String.prototype.trim: strips the blanks at both ends
RECURSIVE trimStart(_)
trimStart(t) == IF t # <<>> /\ Head(t) = " " THEN trimStart(Tail(t)) ELSE t

RECURSIVE trimEnd(_)
trimEnd(t) ==
  IF t # <<>> /\ t[Len(t)] = " " THEN trimEnd(SubSeq(t, 1, Len(t) - 1)) ELSE t

trim(t) == trimEnd(trimStart(t))

\* { contains: search, mode: 'insensitive' } on a nullable text column
containsInsensitive(column, search) ==
  /\ column # None
  /\ LET col == Lower(column[1])
         pat == Lower(search)
     IN \E i \in 0..(Len(col) - Len(pat)) : SubSeq(col, i + 1, i + Len(pat)) = pat

VARIABLES projects, projectMembers, tasks, comments, nextId, pending, last, users,
          notifications

vars == <<projects, projectMembers, tasks, comments, nextId, pending, last, users,
          notifications>>
store == <<projects, projectMembers, tasks, comments, nextId>>

\* ------------------------------------------------------------- responses
Res(status, message, data) == [status |-> status, message |-> message, data |-> data]

Idle == [pc |-> "idle"]

\* bcrypt: the hash of a password, and the comparison of a password to a hash
hash(password) == <<"$", "2", "a", "$">> \o password
compare(password, hashed) == hashed = hash(password)

\* the users the store starts with
Admin == <<"A", "d", "m", "i", "n">>
John == <<"J", "o", "h", "n">>
Jane == <<"J", "a", "n", "e">>
password123 == <<"p", "a", "s", "s", "w", "o", "r", "d", "1", "2", "3">>

DefaultIsActive == TRUE

seedUser(id, firstName, role) ==
  [id |-> id, firstName |-> firstName, password |-> hash(password123),
   role |-> role, isActive |-> DefaultIsActive]

Init ==
  /\ projects = {}
  /\ projectMembers = {}
  /\ tasks = {}
  /\ comments = {}
  /\ nextId = [project |-> 0, member |-> 0, task |-> 0, comment |-> 0]
  /\ pending = [c \in 1..MaxCalls |-> Idle]
  /\ last = [op |-> "none", userId |-> NULL, id |-> BadId, res |-> Res(0, "", {})]
  /\ users = {seedUser("u1", Admin, "ADMIN"), seedUser("u2", John, "USER"),
              seedUser("u3", Jane, "USER")}
  /\ notifications = {}

\* the model stops inserting when MaxRows rows have been inserted
Room == nextId.project + nextId.member + nextId.task + nextId.comment < MaxRows

\* the ids a request may name: those of the stored rows and one of no row
ProjectIds == {p.id : p \in projects} \cup {nextId.project + 1}
MemberIds == {m.id : m \in projectMembers} \cup {nextId.member + 1}
TaskIds == {t.id : t \in tasks} \cup {nextId.task + 1}

Record(op, userId, id, res) ==
  last' = [op |-> op, userId |-> userId, id |-> id, res |-> res]

\* ------------------------------------------------------------ errorHandler
\* The error middleware: a store error that a handler passes to next(error).
errorHandler(code) ==
  CASE code = "P2002" -> Res(409, "A record with this value already exists", {})
    [] code = "P2025" -> Res(404, "Record not found", {})
    [] code = "P2003" -> Res(400, "Invalid foreign key reference", {})
    [] code = "PrismaClientValidationError" -> Res(400, "Invalid data provided", {})
    [] OTHER -> Res(500, "Database error occurred", {})

\* ------------------------------------------------- the visibility predicate
hasAccessOwnerOnly(p, userId) == p.ownerId = userId

\* OR: [{ ownerId: userId }, { members: { some: { userId } } }]
hasAccess(p, userId) ==
  \/ p.ownerId = userId
  \/ \E m \in projectMembers : m.projectId = p.id /\ m.userId = userId

\* ------------------------------------------------------ project controller
\* The where object getProjects builds: the search filter is assigned to the
\* same OR key that holds the visibility predicate.
getProjectsWhere(p, userId, status, search) ==
  /\ IF search # <<>>
       THEN \/ containsInsensitive(Some(p.name), search)
            \/ containsInsensitive(p.description, search)
       ELSE hasAccess(p, userId)
  /\ (status # Absent => p.status = status)

getProjects(userId, status, search) ==
  Res(200, "", {p \in projects : getProjectsWhere(p, userId, status, search)})

getProjectFind(userId, id) ==
  {p \in projects : p.id = id /\ hasAccess(p, userId)}

getProject(userId, id) ==
  IF getProjectFind(userId, id) = {}
    THEN Res(404, "Project not found", {})
    ELSE Res(200, "", getProjectFind(userId, id))

\* z.string().min(3).max(100)
createProjectSchema(body) ==
  Len(body.name) >= NameMinLen /\ Len(body.name) <= NameMaxLen

createProject(userId, body) ==
  IF ~createProjectSchema(body)
    THEN Res(400, "Validation error", {})
    ELSE Res(201, "Project created successfully",
             {[id |-> nextId.project + 1, name |-> body.name,
               description |-> body.description,
               status |-> DefaultProjectStatus, ownerId |-> userId]})

CreateProject(userId, body) ==
  LET res == createProject(userId, body) IN
  /\ res.status = 201 => Room
  /\ IF res.status = 201
       THEN /\ projects' = projects \cup res.data
            /\ nextId' = [nextId EXCEPT !.project = @ + 1]
       ELSE UNCHANGED <<projects, nextId>>
  /\ Record("createProject", userId,
            IF res.status = 201 THEN nextId.project + 1 ELSE BadId, res)
  /\ UNCHANGED <<projectMembers, tasks, comments, pending, users, notifications>>

\* name and status are optional; a present one must satisfy its rule
updateProjectSchema(body) ==
  /\ body.name # None =>
       Len(body.name[1]) >= NameMinLen /\ Len(body.name[1]) <= NameMaxLen
  /\ body.status # Absent => body.status \in ProjectStatuses

ownedOrJoinedProject(userId, id) ==
  {p \in projects : p.id = id /\ hasAccess(p, userId)}

\* findFirst({ where: { id, ownerId: userId } })
ownedProject(userId, id) ==
  {p \in projects : p.id = id /\ p.ownerId = userId}

updatedProjectAndOwner(p, body) ==
  [p EXCEPT !.name = IF body.name # None THEN body.name[1] ELSE @,
            !.status = IF body.status # Absent THEN body.status ELSE @,
            !.ownerId = IF body.ownerId # Absent THEN body.ownerId ELSE @]

\* prisma.project.update: the fields the validated body carries
updatedProject(p, body) ==
  [p EXCEPT !.name = IF body.name # None THEN body.name[1] ELSE @,
            !.status = IF body.status # Absent THEN body.status ELSE @]

updateProject(userId, id, body) ==
  IF ~updateProjectSchema(body)
    THEN Res(400, "Validation error", {})
    ELSE IF ownedProject(userId, id) = {}
      THEN Res(404, "Project not found or you do not have permission to update it", {})
      ELSE Res(200, "Project updated successfully",
               {updatedProject(p, body) : p \in ownedProject(userId, id)})

UpdateProject(userId, id, body) ==
  LET res == updateProject(userId, id, body) IN
  /\ IF res.status = 200
       THEN projects' = {p \in projects : p.id # id} \cup res.data
       ELSE UNCHANGED projects
  /\ Record("updateProject", userId, id, res)
  /\ UNCHANGED <<projectMembers, tasks, comments, nextId, pending, users, notifications>>

deleteProject(userId, id) ==
  IF ownedProject(userId, id) = {}
    THEN Res(404, "Project not found or you do not have permission to delete it", {})
    ELSE Res(200, "Project deleted successfully", {})

\* What the store removes with a project: the rows the project owns (its
\* memberships, its tasks and their comments).
tasksOfProject(id) == {t \in tasks : t.projectId = id}

cascadeProjectNone(id) ==
  [projectMembers |-> projectMembers, tasks |-> tasks, comments |-> comments]

cascadeProject(id) ==
  [projectMembers |-> {m \in projectMembers : m.projectId # id},
   tasks |-> tasks \ tasksOfProject(id),
   comments |-> {c \in comments : c.taskId \notin {t.id : t \in tasksOfProject(id)}}]

DeleteProject(userId, id) ==
  LET res == deleteProject(userId, id) IN
  /\ IF res.status = 200
       THEN /\ projects' = {p \in projects : p.id # id}
            /\ projectMembers' = cascadeProject(id).projectMembers
            /\ tasks' = cascadeProject(id).tasks
            /\ comments' = cascadeProject(id).comments
       ELSE UNCHANGED <<projects, projectMembers, tasks, comments>>
  /\ Record("deleteProject", userId, id, res)
  /\ UNCHANGED <<nextId, pending, users, notifications>>

\* findUnique({ where: { projectId_userId: { projectId, userId } } })
existingMember(id, memberUserId) ==
  {m \in projectMembers : m.projectId = id /\ m.userId = memberUserId}

\* prisma.projectMember.create under the constraints of the table: the pair
\* (projectId, userId) is unique, and both columns reference existing rows.
projectMemberCreate(id, memberUserId) ==
  IF existingMember(id, memberUserId) # {} THEN "P2002"
  ELSE IF memberUserId \notin Users \/ id \notin {p.id : p \in projects} THEN "P2003"
  ELSE "ok"

newMember(id, body) ==
  [id |-> nextId.member + 1, projectId |-> id, userId |-> body.userId,
   role |-> IF body.role = Absent THEN "MEMBER" ELSE body.role]

\* the tail of addMember: the insert and the answer to it
addMemberCreate(id, body) ==
  IF projectMemberCreate(id, body.userId) = "ok"
    THEN Res(201, "Member added successfully", {newMember(id, body)})
    ELSE errorHandler(projectMemberCreate(id, body.userId))

addMemberFindUniqueBlind(id, body) ==
  IF body.userId = Absent THEN errorHandler("PrismaClientValidationError")
  ELSE Res(0, "continue", {})

\* the middle of addMember: the look-up of an existing row
addMemberFindUnique(id, body) ==
  IF body.userId = Absent THEN errorHandler("PrismaClientValidationError")
  ELSE IF existingMember(id, body.userId) # {}
    THEN Res(400, "User is already a member of this project", {})
    ELSE Res(0, "continue", {})

addMember(userId, id, body) ==
  IF ownedProject(userId, id) = {}
    THEN Res(404, "Project not found or you do not have permission", {})
    ELSE IF addMemberFindUnique(id, body).status # 0
      THEN addMemberFindUnique(id, body)
      ELSE addMemberCreate(id, body)

AddMember(userId, id, body) ==
  LET res == addMember(userId, id, body) IN
  /\ res.status = 201 => Room
  /\ IF res.status = 201
       THEN /\ projectMembers' = projectMembers \cup res.data
            /\ nextId' = [nextId EXCEPT !.member = @ + 1]
       ELSE UNCHANGED <<projectMembers, nextId>>
  /\ Record("addMember", userId, id, res)
  /\ UNCHANGED <<projects, tasks, comments, pending, users, notifications>>

\* prisma.projectMember.delete({ where: { id: memberId } })
removeMember(userId, id, memberId) ==
  IF ownedProject(userId, id) = {}
    THEN Res(404, "Project not found or you do not have permission", {})
    ELSE IF {m \in projectMembers : m.id = memberId} = {}
      THEN errorHandler("P2025")
      ELSE Res(200, "Member removed successfully", {})

RemoveMemberFirst(userId, id, memberId) ==
  LET res == removeMember(userId, id, memberId) IN
  /\ projectMembers' = {m \in projectMembers : m.id # memberId}
  /\ Record("removeMember", userId, id, res)
  /\ UNCHANGED <<projects, tasks, comments, nextId, pending, users, notifications>>

RemoveMember(userId, id, memberId) ==
  LET res == removeMember(userId, id, memberId) IN
  /\ IF res.status = 200
       THEN projectMembers' = {m \in projectMembers : m.id # memberId}
       ELSE UNCHANGED projectMembers
  /\ Record("removeMember", userId, id, res)
  /\ UNCHANGED <<projects, tasks, comments, nextId, pending, users, notifications>>

\* --------------------------------------------------------- task controller
\* where: { project: { OR: [...] } }
taskAccess(t, userId) ==
  \E p \in projects : p.id = t.projectId /\ hasAccess(p, userId)

getTasksWhereOverwritten(t, userId, projectId, status, priority, assigneeId) ==
  /\ (assigneeId = Absent => taskAccess(t, userId))
  /\ (projectId # BadId => t.projectId = projectId)
  /\ (status # Absent => t.status = status)
  /\ (priority # Absent => t.priority = priority)
  /\ (assigneeId # Absent => t.assigneeId = assigneeId)

getTasksWhere(t, userId, projectId, status, priority, assigneeId) ==
  /\ taskAccess(t, userId)
  /\ (projectId # BadId => t.projectId = projectId)
  /\ (status # Absent => t.status = status)
  /\ (priority # Absent => t.priority = priority)
  /\ (assigneeId # Absent => t.assigneeId = assigneeId)

\* projectId = BadId stands for a query without projectId
getTasks(userId, projectId, status, priority, assigneeId) ==
  Res(200, "",
      {t \in tasks : getTasksWhere(t, userId, projectId, status, priority, assigneeId)})

taskById(userId, id) == {t \in tasks : t.id = id}

accessibleTaskOfAssignee(userId, id) ==
  {t \in tasks : t.id = id /\ t.assigneeId = userId}

\* findFirst({ where: { id, project: { OR: [...] } } })
accessibleTask(userId, id) ==
  {t \in tasks : t.id = id /\ taskAccess(t, userId)}

getTask(userId, id) ==
  IF accessibleTask(userId, id) = {}
    THEN Res(404, "Task not found", {})
    ELSE Res(200, "", accessibleTask(userId, id))

\* z.string().datetime(): the ISO 8601 texts, here those of two instants
datetime(text) == text \in {"2025-01-15T00:00:00Z", "2025-02-01T00:00:00Z"}

\* new Date(text): the instant, as the days since the start of 2025
Date(text) ==
  CASE text = "2025-01-15T00:00:00Z" -> 14
    [] text = "2025-02-01T00:00:00Z" -> 31

\* title, projectId and the optional dueDate and assigneeId; every modelled
\* request carries a priority, since the column's default is not set by the
\* controller
createTaskSchema(body) ==
  /\ Len(body.title) >= TitleMinLen /\ Len(body.title) <= TitleMaxLen
  /\ body.projectId # BadId
  /\ body.priority \in Priorities
  /\ body.dueDate # None => datetime(body.dueDate[1])
  /\ body.assigneeId # NoUser

\* dueDate: validatedData.dueDate ? new Date(validatedData.dueDate) : null
createTaskDueDate(body) ==
  IF body.dueDate # None THEN Some(Date(body.dueDate[1])) ELSE None

createTaskProjectAny(userId, projectId) == {p \in projects : p.id = projectId}

\* findFirst({ where: { id: projectId, OR: [...] } }), for the actor and for
\* the assignee
createTaskProject(userId, projectId) ==
  {p \in projects : p.id = projectId /\ hasAccess(p, userId)}

createTaskUnchecked(userId, body) ==
  IF ~createTaskSchema(body)
    THEN Res(400, "Validation error", {})
  ELSE IF createTaskProject(userId, body.projectId) = {}
    THEN Res(404, "Project not found or you do not have access", {})
  ELSE Res(201, "Task created successfully",
           {[id |-> nextId.task + 1, title |-> body.title,
             status |-> DefaultTaskStatus, priority |-> body.priority,
             projectId |-> body.projectId,
             assigneeId |-> IF body.assigneeId = Absent THEN NULL ELSE body.assigneeId,
             dueDate |-> createTaskDueDate(body)]})

createTask(userId, body) ==
  IF ~createTaskSchema(body)
    THEN Res(400, "Validation error", {})
  ELSE IF createTaskProject(userId, body.projectId) = {}
    THEN Res(404, "Project not found or you do not have access", {})
  ELSE IF body.assigneeId # Absent /\ createTaskProject(body.assigneeId, body.projectId) = {}
    THEN Res(400, "Assignee does not have access to this project", {})
  ELSE Res(201, "Task created successfully",
           {[id |-> nextId.task + 1, title |-> body.title,
             status |-> DefaultTaskStatus, priority |-> body.priority,
             projectId |-> body.projectId,
             assigneeId |-> IF body.assigneeId = Absent THEN NULL ELSE body.assigneeId,
             dueDate |-> createTaskDueDate(body)]})

CreateTask(userId, body) ==
  LET res == createTask(userId, body) IN
  /\ res.status = 201 => Room
  /\ IF res.status = 201
       THEN /\ tasks' = tasks \cup res.data
            /\ nextId' = [nextId EXCEPT !.task = @ + 1]
       ELSE UNCHANGED <<tasks, nextId>>
  /\ Record("createTask", userId,
            IF res.status = 201 THEN nextId.task + 1 ELSE BadId, res)
  /\ UNCHANGED <<projects, projectMembers, comments, pending, users, notifications>>

\* every field optional; assigneeId may also be null (unassign)
updateTaskSchema(body) ==
  /\ body.title # None =>
       Len(body.title[1]) >= TitleMinLen /\ Len(body.title[1]) <= TitleMaxLen
  /\ body.status # Absent => body.status \in TaskStatuses
  /\ body.priority # Absent => body.priority \in Priorities
  /\ body.assigneeId # NoUser

updatedTask(t, body) ==
  [t EXCEPT !.title = IF body.title # None THEN body.title[1] ELSE @,
            !.status = IF body.status # Absent THEN body.status ELSE @,
            !.priority = IF body.priority # Absent THEN body.priority ELSE @,
            !.assigneeId = IF body.assigneeId # Absent THEN body.assigneeId ELSE @]

updateTask(userId, id, body) ==
  IF ~updateTaskSchema(body)
    THEN Res(400, "Validation error", {})
  ELSE IF accessibleTask(userId, id) = {}
    THEN Res(404, "Task not found or you do not have permission", {})
  ELSE Res(200, "Task updated successfully",
           {updatedTask(t, body) : t \in accessibleTask(userId, id)})

UpdateTask(userId, id, body) ==
  LET res == updateTask(userId, id, body) IN
  /\ IF res.status = 200
       THEN tasks' = {t \in tasks : t.id # id} \cup res.data
       ELSE UNCHANGED tasks
  /\ Record("updateTask", userId, id, res)
  /\ UNCHANGED <<projects, projectMembers, comments, nextId, pending, users, notifications>>

updateTaskStatusForwardOnly(userId, id, body) ==
  LET rank == [st \in TaskStatuses |->
                 CASE st = "TODO" -> 1 [] st = "IN_PROGRESS" -> 2
                   [] st = "IN_REVIEW" -> 3 [] OTHER -> 4] IN
  IF body.status \notin TaskStatuses
    THEN Res(400, "Invalid status", {})
  ELSE IF accessibleTask(userId, id) = {}
    THEN Res(404, "Task not found or you do not have permission", {})
  ELSE IF \E t \in accessibleTask(userId, id) : rank[body.status] < rank[t.status]
    THEN Res(400, "Invalid status", {})
  ELSE Res(200, "Task status updated successfully",
           {[t EXCEPT !.status = body.status] : t \in accessibleTask(userId, id)})

updateTaskStatus(userId, id, body) ==
  IF body.status \notin TaskStatuses
    THEN Res(400, "Invalid status", {})
  ELSE IF accessibleTask(userId, id) = {}
    THEN Res(404, "Task not found or you do not have permission", {})
  ELSE Res(200, "Task status updated successfully",
           {[t EXCEPT !.status = body.status] : t \in accessibleTask(userId, id)})

UpdateTaskStatusCompleting(userId, id, body) ==
  LET res == updateTaskStatus(userId, id, body) IN
  /\ IF res.status = 200
       THEN /\ tasks' = {t \in tasks : t.id # id} \cup res.data
            /\ projects' =
                 {IF \A t \in tasks' : t.projectId = p.id => t.status = "DONE"
                    THEN [p EXCEPT !.status = "COMPLETED"] ELSE p : p \in projects}
       ELSE UNCHANGED <<tasks, projects>>
  /\ Record("updateTaskStatus", userId, id, res)
  /\ UNCHANGED <<projectMembers, comments, nextId, pending, users, notifications>>

UpdateTaskStatus(userId, id, body) ==
  LET res == updateTaskStatus(userId, id, body) IN
  /\ IF res.status = 200
       THEN tasks' = {t \in tasks : t.id # id} \cup res.data
       ELSE UNCHANGED tasks
  /\ Record("updateTaskStatus", userId, id, res)
  /\ UNCHANGED <<projects, projectMembers, comments, nextId, pending, users, notifications>>

deleteTask(userId, id) ==
  IF accessibleTask(userId, id) = {}
    THEN Res(404, "Task not found or you do not have permission", {})
    ELSE Res(200, "Task deleted successfully", {})

\* What the store removes with a task: the comments the task owns.
cascadeTask(id) == {c \in comments : c.taskId # id}

DeleteTask(userId, id) ==
  LET res == deleteTask(userId, id) IN
  /\ IF res.status = 200
       THEN /\ tasks' = {t \in tasks : t.id # id}
            /\ comments' = cascadeTask(id)
       ELSE UNCHANGED <<tasks, comments>>
  /\ Record("deleteTask", userId, id, res)
  /\ UNCHANGED <<projects, projectMembers, nextId, pending, users, notifications>>

addCommentMissing(body) == body.content = <<>>

\* !content || content.trim().length === 0
addCommentEmpty(body) == body.content = <<>> \/ Len(trim(body.content)) = 0

addComment(userId, id, body) ==
  IF addCommentEmpty(body)
    THEN Res(400, "Comment content is required", {})
  ELSE IF accessibleTask(userId, id) = {}
    THEN Res(404, "Task not found or you do not have permission", {})
  ELSE Res(201, "Comment added successfully",
           {[id |-> nextId.comment + 1, content |-> body.content,
             taskId |-> id, authorId |-> userId]})

AddComment(userId, id, body) ==
  LET res == addComment(userId, id, body) IN
  /\ res.status = 201 => Room
  /\ IF res.status = 201
       THEN /\ comments' = comments \cup res.data
            /\ nextId' = [nextId EXCEPT !.comment = @ + 1]
       ELSE UNCHANGED <<comments, nextId>>
  /\ Record("addComment", userId, id, res)
  /\ UNCHANGED <<projects, projectMembers, tasks, pending, users, notifications>>

\* ------------------------------------------------------------------- reads
GetProjects(userId, status, search) ==
  /\ Record("getProjects", userId, BadId, getProjects(userId, status, search))
  /\ UNCHANGED <<store, pending, users, notifications>>

GetProject(userId, id) ==
  /\ Record("getProject", userId, id, getProject(userId, id))
  /\ UNCHANGED <<store, pending, users, notifications>>

GetTasks(userId, projectId, status, priority, assigneeId) ==
  /\ Record("getTasks", userId, projectId,
            getTasks(userId, projectId, status, priority, assigneeId))
  /\ UNCHANGED <<store, pending, users, notifications>>

GetTask(userId, id) ==
  /\ Record("getTask", userId, id, getTask(userId, id))
  /\ UNCHANGED <<store, pending, users, notifications>>

\* --------------------------------------------------------- user controller
FirstNameMinLen == 2
PasswordMinLen == 8

\* zod strips the keys the schema does not name: what is left of the body
updateUserSchema(body) ==
  body.firstName # None => Len(body.firstName[1]) >= FirstNameMinLen

updateUserData(body) == [firstName |-> body.firstName]

\* where: { id: userId }, for updateUser, changePassword and deleteUser
userWhereBody(userId, body) == IF body.id # Absent THEN body.id ELSE userId

userWhere(userId, body) == userId

userRows(id) == {r \in users : r.id = id}

\* prisma.user.update: the rows of the table once the rows changed replace
\* those of the id
userUpdate(id, changed) == {r \in users : r.id # id} \cup changed

renamed(r, data) ==
  [r EXCEPT !.firstName = IF data.firstName # None THEN data.firstName[1] ELSE @]

updateUser(userId, body) ==
  IF ~updateUserSchema(body)
    THEN Res(400, "Validation error", {})
  ELSE IF userRows(userWhere(userId, body)) = {}
    THEN errorHandler("P2025")
  ELSE Res(200, "User updated successfully",
           {renamed(r, updateUserData(body)) : r \in userRows(userWhere(userId, body))})

UpdateUser(userId, body) ==
  LET res == updateUser(userId, body) IN
  /\ IF res.status = 200
       THEN users' = userUpdate(userWhere(userId, body), res.data)
       ELSE UNCHANGED users
  /\ Record("updateUser", userId, BadId, res)
  /\ UNCHANGED <<store, pending, notifications>>

changePasswordSchema(body) == Len(body.newPassword) >= PasswordMinLen

rehashed(r, body) == [r EXCEPT !.password = hash(body.newPassword)]

changePassword(userId, body) ==
  IF ~changePasswordSchema(body)
    THEN Res(400, "Validation error", {})
  ELSE IF userRows(userWhere(userId, body)) = {}
    THEN Res(404, "User not found", {})
  ELSE IF \E r \in userRows(userWhere(userId, body)) :
            ~compare(body.currentPassword, r.password)
    THEN Res(400, "Current password is incorrect", {})
  ELSE Res(200, "Password changed successfully", {})

ChangePassword(userId, body) ==
  LET res == changePassword(userId, body) IN
  /\ IF res.status = 200
       THEN users' = userUpdate(userWhere(userId, body),
                                {rehashed(r, body) : r \in userRows(userWhere(userId, body))})
       ELSE UNCHANGED users
  /\ Record("changePassword", userId, BadId, res)
  /\ UNCHANGED <<store, pending, notifications>>

deactivatedAndRenamed(r) == [r EXCEPT !.isActive = FALSE, !.firstName = <<>>]

\* data: { isActive: false }
deactivated(r) == [r EXCEPT !.isActive = FALSE]

deleteUser(userId, body) ==
  IF userRows(userWhere(userId, body)) = {}
    THEN errorHandler("P2025")
    ELSE Res(200, "Account deactivated successfully", {})

DeleteUser(userId, body) ==
  LET res == deleteUser(userId, body) IN
  /\ IF res.status = 200
       THEN users' = userUpdate(userWhere(userId, body),
                                {deactivated(r) : r \in userRows(userWhere(userId, body))})
       ELSE UNCHANGED users
  /\ Record("deleteUser", userId, BadId, res)
  /\ UNCHANGED <<store, pending, notifications>>

\* the where of task.groupBy: assigned to the user, or under a project the
\* user owns or is a member of
getUserStatsTasks(userId) ==
  {t \in tasks : t.assigneeId = userId \/ taskAccess(t, userId)}

tasksByStatus(userId) ==
  [st \in TaskStatuses |-> Cardinality({t \in getUserStatsTasks(userId) : t.status = st})]

getUserStats(userId) ==
  Res(200, "",
      {[totalProjects |-> Cardinality({p \in projects : hasAccess(p, userId)}),
        tasksByStatus |-> tasksByStatus(userId),
        totalTasks |-> tasksByStatus(userId)["TODO"] + tasksByStatus(userId)["IN_PROGRESS"]
                         + tasksByStatus(userId)["IN_REVIEW"] + tasksByStatus(userId)["DONE"]]})

GetUserStats(userId) ==
  /\ Record("getUserStats", userId, BadId, getUserStats(userId))
  /\ UNCHANGED <<store, pending, users, notifications>>

\* ------------------------------------------------------ the order of lists
\* The store sorts an enum column by the place of the value in the
\* declaration of the enum.
StatusOrder == <<"TODO", "IN_PROGRESS", "IN_REVIEW", "DONE">>
PriorityOrder == <<"LOW", "MEDIUM", "HIGH", "URGENT">>

place(order, value) == CHOOSE i \in 1..Len(order) : order[i] = value

\* the store's ascending order of a nullable column: a null sorts after
\* every value
ascNullsFirst(a, b) == (a = None /\ b # None) \/ (a # None /\ b # None /\ a[1] < b[1])

ascNullsLast(a, b) == (a # None /\ b = None) \/ (a # None /\ b # None /\ a[1] < b[1])

\* orderBy: [{ status: 'asc' }, { priority: 'desc' }, { dueDate: 'asc' }]:
\* row a sorts before row b
getTasksOrderBy(a, b) ==
  LET sa == place(StatusOrder, a.status)
      sb == place(StatusOrder, b.status)
      pa == place(PriorityOrder, a.priority)
      pb == place(PriorityOrder, b.priority) IN
  \/ sa < sb
  \/ sa = sb /\ pa > pb
  \/ sa = sb /\ pa = pb /\ ascNullsLast(a.dueDate, b.dueDate)

\* the time a project row was created: the store stamps the row when it
\* inserts it, and the ids of the model are handed out in that order
createdAt(p) == p.id

\* orderBy: { createdAt: 'desc' }
getProjectsOrderBy(a, b) == createdAt(a) > createdAt(b)

\* findMany with orderBy: the sequences of the rows in which no row comes
\* after a row it sorts before; rows that tie come in any order
\* (before: the pairs of rows of which the first sorts before the second)
findManyOrdered(rows, before) ==
  {list \in [1..Cardinality(rows) -> rows] :
     /\ {list[i] : i \in 1..Cardinality(rows)} = rows
     /\ \A i, j \in 1..Cardinality(rows) : i < j => <<list[j], list[i]>> \notin before}

tasksOrderBy(rows) == {pair \in rows \X rows : getTasksOrderBy(pair[1], pair[2])}

projectsOrderBy(rows) == {pair \in rows \X rows : getProjectsOrderBy(pair[1], pair[2])}

\* getTasks and getProjects, with the order of the rows in the response
GetTasksOrdered(userId, projectId, status, priority, assigneeId) ==
  /\ \E list \in findManyOrdered(
                   getTasks(userId, projectId, status, priority, assigneeId).data,
                   tasksOrderBy(tasks)) :
       Record("getTasks", userId, projectId, Res(200, "", list))
  /\ UNCHANGED <<store, pending, users, notifications>>

GetProjectsOrdered(userId, status, search) ==
  /\ \E list \in findManyOrdered(getProjects(userId, status, search).data,
                                 projectsOrderBy(projects)) :
       Record("getProjects", userId, BadId, Res(200, "", list))
  /\ UNCHANGED <<store, pending, users, notifications>>

\* ------------------------------------------------------------------ inputs
App == <<"A", "p", "p">>
Api == <<"a", "p", "i">>

\* a well-formed body, and one whose name is too short
AppBody == [name |-> App, description |-> Some(Api)]
BadProjectBody == [name |-> <<"A">>, description |-> None]

\* (ownerId is a key that the schema does not name)
UpdateProjectBodies ==
  { [name |-> None, status |-> "COMPLETED", ownerId |-> Absent],
    [name |-> Some(<<"A">>), status |-> Absent, ownerId |-> Absent] }

\* no search, a search that matches the name, one that matches the description
Searches == { <<>>, <<"P", "P">>, <<"p", "I">> }

\* the users who create projects, and the users who are invited to them
Creators == {"u1", "u2"}
Invitees == {"u2", "u3"}

MemberBodies(invitees) == { [userId |-> u, role |-> Absent] : u \in invitees }

Title == <<"F", "i", "x">>

\* well-formed bodies for every project and assignee, and a malformed one
CreateTaskBodies ==
  { [title |-> Title, projectId |-> p, priority |-> "HIGH", dueDate |-> None,
      assigneeId |-> a] :
      p \in ProjectIds, a \in Users \cup {Absent} }
  \cup { [title |-> <<"F">>, projectId |-> p, priority |-> "HIGH", dueDate |-> None,
         assigneeId |-> Absent] :
      p \in {p.id : p \in projects} }

UpdateTaskBodies ==
  { [title |-> None, status |-> Absent, priority |-> Absent, assigneeId |-> a] :
      a \in {"u3", NULL} }
  \cup { [title |-> None, status |-> st, priority |-> Absent, assigneeId |-> Absent] :
      st \in {"TODO", "DONE", "CLOSED"} }

StatusBodies == { [status |-> st] : st \in TaskStatuses \cup {"CLOSED"} }

CommentBodies == { [content |-> c] : c \in { <<"o", "k">>, <<" ">> } }

\* ------------------------------------------------- the projects and members
MembershipRequests(creators, invitees) ==
  \/ \E u \in creators, b \in {AppBody, BadProjectBody} : CreateProject(u, b)
  \/ \E u \in Users, id \in ProjectIds : DeleteProject(u, id)
  \/ \E u \in Users, id \in ProjectIds, b \in MemberBodies(invitees) : AddMember(u, id, b)
  \/ \E u \in Users, id \in ProjectIds, m \in MemberIds : RemoveMember(u, id, m)

ProjectRequests ==
  \/ \E u \in Users, id \in ProjectIds, b \in UpdateProjectBodies :
       UpdateProject(u, id, b)
  \/ \E u \in Users, st \in {Absent, "COMPLETED"}, s \in Searches : GetProjects(u, st, s)
  \/ \E u \in Users, id \in ProjectIds : GetProject(u, id)

NextProjects == MembershipRequests(Creators, Invitees) \/ ProjectRequests

SpecProjects == Init /\ [][NextProjects]_vars

\* ------------------------------------------------------- the whole backend
TaskRequests ==
  \/ \E u \in Users, b \in CreateTaskBodies : CreateTask(u, b)
  \/ \E u \in Users, id \in TaskIds, b \in UpdateTaskBodies : UpdateTask(u, id, b)
  \/ \E u \in Users, id \in TaskIds, b \in StatusBodies : UpdateTaskStatus(u, id, b)
  \/ \E u \in Users, id \in TaskIds : DeleteTask(u, id)
  \/ \E u \in Users, id \in TaskIds, b \in CommentBodies : AddComment(u, id, b)
  \/ \E u \in Users, id \in TaskIds : GetTask(u, id)
  \/ \E u \in Users, st \in {Absent, "DONE"}, a \in {Absent, "u2"} :
       GetTasks(u, BadId, st, Absent, a)

\* one owner, one user who is invited, one who never is
Next == MembershipRequests({"u1"}, {"u2"}) \/ TaskRequests

Spec == Init /\ [][Next]_vars

\* ------------------------------------------ addMember, one await at a time
\* A call in flight: where it stands and its request.  An answered call
\* keeps the store's verdict on its insert and the response it was given.
Call(pc, userId, id, body) == [pc |-> pc, userId |-> userId, id |-> id, body |-> body]

Answer(c, userId, id, err, res) ==
  /\ pending' = [pending EXCEPT ![c] = [pc |-> "done", err |-> err, res |-> res]]
  /\ Record("addMember", userId, id, res)

\* await prisma.project.findFirst: the owner check
AddMemberFindFirst(c, userId, id, body) ==
  /\ pending[c].pc \in {"idle", "done"}
  /\ IF ownedProject(userId, id) = {}
       THEN Answer(c, userId, id, "none", addMember(userId, id, body))
       ELSE /\ pending' = [pending EXCEPT
                             ![c] = Call("findUnique", userId, id, body)]
            /\ UNCHANGED last
  /\ UNCHANGED <<store, users, notifications>>

\* await prisma.projectMember.findUnique: the existing-member check
AddMemberFindUnique(c) ==
  LET call == pending[c]
      res == addMemberFindUnique(call.id, call.body) IN
  /\ call.pc = "findUnique"
  /\ IF res.status # 0
       THEN Answer(c, call.userId, call.id, "none", res)
       ELSE /\ pending' = [pending EXCEPT ![c].pc = "create"]
            /\ UNCHANGED last
  /\ UNCHANGED <<store, users, notifications>>

\* await prisma.projectMember.create: the insert, under the store's constraints
AddMemberCreate(c) ==
  LET call == pending[c]
      res == addMemberCreate(call.id, call.body) IN
  /\ call.pc = "create"
  /\ res.status = 201 => Room
  /\ IF res.status = 201
       THEN /\ projectMembers' = projectMembers \cup res.data
            /\ nextId' = [nextId EXCEPT !.member = @ + 1]
       ELSE UNCHANGED <<projectMembers, nextId>>
  /\ Answer(c, call.userId, call.id, projectMemberCreate(call.id, call.body.userId), res)
  /\ UNCHANGED <<projects, tasks, comments, users, notifications>>

NextRace ==
  \/ \E b \in {AppBody} : CreateProject("u1", b)
  \/ \E id \in ProjectIds : DeleteProject("u1", id)
  \/ \E id \in ProjectIds, m \in MemberIds : RemoveMember("u1", id, m)
  \/ \E c \in 1..MaxCalls, u \in {"u1", "u2"}, id \in ProjectIds,
        b \in MemberBodies({"u2", "u3"}) : AddMemberFindFirst(c, u, id, b)
  \/ \E c \in 1..MaxCalls : AddMemberFindUnique(c)
  \/ \E c \in 1..MaxCalls : AddMemberCreate(c)

SpecRace == Init /\ [][NextRace]_vars

\* ----------------------------------------------------- the users' accounts
Al == <<"A", "l">>
password124 == <<"p", "a", "s", "s", "w", "o", "r", "d", "1", "2", "4">>

\* bodies with and without a key that names another user
UpdateUserBodies ==
  { [firstName |-> Some(Al), id |-> x] : x \in {Absent, "u3"} }
  \cup { [firstName |-> Some(<<"A">>), id |-> Absent] }

ChangePasswordBodies ==
  { [currentPassword |-> password123, newPassword |-> password124, id |-> x] :
      x \in {Absent, "u3"} }
  \cup { [currentPassword |-> password124, newPassword |-> password123, id |-> Absent],
         [currentPassword |-> password123, newPassword |-> Al, id |-> Absent] }

DeleteUserBodies == { [id |-> x] : x \in {Absent, "u3"} }

\* the admin renames and deactivates their account; a user changes their
\* password and deactivates their account; the third user is the one that
\* the extra key of the bodies names
UserRequests ==
  \/ \E b \in UpdateUserBodies : UpdateUser("u1", b)
  \/ \E b \in ChangePasswordBodies : ChangePassword("u2", b)
  \/ \E u \in {"u1", "u2"}, b \in DeleteUserBodies : DeleteUser(u, b)
  \/ \E u \in Users : GetUserStats(u)

\* the accounts, over projects with their members, tasks and comments
NextUsers ==
  \/ MembershipRequests({"u1"}, {"u2"})
  \/ \E u \in {"u1", "u2"}, b \in CreateTaskBodies : CreateTask(u, b)
  \/ \E u \in {"u1", "u2"}, id \in TaskIds, b \in CommentBodies : AddComment(u, id, b)
  \/ UserRequests

SpecUsers == Init /\ [][NextUsers]_vars

\* ------------------------------------------------------------ the listings
\* tasks of every priority, with and without a due date
OrderedTaskBodies ==
  { [title |-> Title, projectId |-> p, priority |-> pr, dueDate |-> d,
      assigneeId |-> Absent] :
      p \in {p.id : p \in projects}, pr \in Priorities,
      d \in {None, Some("2025-01-15T00:00:00Z"), Some("2025-02-01T00:00:00Z")} }

NextOrder ==
  \/ CreateProject("u1", AppBody)
  \/ \E id \in ProjectIds : DeleteProject("u1", id)
  \/ \E b \in OrderedTaskBodies : CreateTask("u1", b)
  \/ \E id \in TaskIds, st \in TaskStatuses : UpdateTaskStatus("u1", id, [status |-> st])
  \/ GetTasksOrdered("u1", BadId, Absent, Absent, Absent)
  \/ GetProjectsOrdered("u1", Absent, <<>>)

SpecOrder == Init /\ [][NextOrder]_vars

\* --------------------------------------------------------------- the writes
\* an update that also carries the id of another user as ownerId
OwnerBody == [name |-> None, status |-> "ARCHIVED", ownerId |-> "u2"]

\* the bodies of the task writes: one that completes the task and one that
\* fails the validation
DoneBodies == {b \in UpdateTaskBodies : b.status \in {"DONE", "CLOSED"}}
DoneStatusBodies == {b \in StatusBodies : b.status \in {"DONE", "CLOSED"}}

\* every handler that writes, for the owner of a project and a user who is
\* invited to it
NextWrites ==
  \/ \E b \in {AppBody, BadProjectBody} : CreateProject("u1", b)
  \/ \E u \in {"u1", "u2"}, id \in ProjectIds, b \in UpdateProjectBodies \cup {OwnerBody} :
       UpdateProject(u, id, b)
  \/ \E id \in ProjectIds : DeleteProject("u1", id)
  \/ \E id \in ProjectIds, b \in MemberBodies({"u2"}) : AddMember("u1", id, b)
  \/ \E id \in ProjectIds, m \in MemberIds : RemoveMember("u1", id, m)
  \/ \E u \in {"u1", "u2"}, b \in {x \in CreateTaskBodies : x.assigneeId \in {Absent, "u2"}} :
       CreateTask(u, b)
  \/ \E u \in {"u1", "u2"}, id \in TaskIds, b \in DoneBodies : UpdateTask(u, id, b)
  \/ \E u \in {"u1", "u2"}, id \in TaskIds, b \in DoneStatusBodies : UpdateTaskStatus(u, id, b)
  \/ \E u \in {"u1", "u2"}, id \in TaskIds : DeleteTask(u, id)
  \/ \E u \in {"u1", "u2"}, id \in TaskIds, b \in CommentBodies : AddComment(u, id, b)
  \/ \E b \in {x \in UpdateUserBodies : x.id = Absent} : UpdateUser("u1", b)
  \/ \E b \in {x \in ChangePasswordBodies : x.currentPassword # password123} :
       ChangePassword("u2", b)
  \/ \E b \in {x \in DeleteUserBodies : x.id = Absent} : DeleteUser("u1", b)

SpecWrites == Init /\ [][NextWrites]_vars

\* ------------------------------------------- task writes, one await at a time
\* A task write in flight: the handler has looked the task (for createTask:
\* the project) up and has not yet issued its write.
TaskCall(op, userId, id, body) ==
  [pc |-> "write", op |-> op, userId |-> userId, id |-> id, body |-> body]

TaskAnswer(c, op, userId, id, err, res) ==
  /\ pending' = [pending EXCEPT ![c] = [pc |-> "done", err |-> err, res |-> res]]
  /\ Record(op, userId, id, res)

\* the handler up to its write: the validation and the look-ups, as the
\* handler makes them when nothing interleaves
taskWriteFindFirst(op, userId, id, body) ==
  CASE op = "createTask" -> createTask(userId, body)
    [] op = "updateTask" -> updateTask(userId, id, body)
    [] op = "updateTaskStatus" -> updateTaskStatus(userId, id, body)
    [] op = "deleteTask" -> deleteTask(userId, id)
    [] op = "addComment" -> addComment(userId, id, body)

\* the store's verdict on the write: an update or delete needs the row of
\* the id, an insert the row that its foreign key references
taskWriteError(op, id, body) ==
  CASE op = "createTask" ->
         IF body.projectId \in {p.id : p \in projects} THEN "ok" ELSE "P2003"
    [] op = "addComment" -> IF id \in {t.id : t \in tasks} THEN "ok" ELSE "P2003"
    [] OTHER -> IF id \in {t.id : t \in tasks} THEN "ok" ELSE "P2025"

\* the write of the handler, with the rows as they are now, and its answer
taskWrite(op, userId, id, body) ==
  CASE op = "createTask" ->
         Res(201, "Task created successfully",
             {[id |-> nextId.task + 1, title |-> body.title,
               status |-> DefaultTaskStatus, priority |-> body.priority,
               projectId |-> body.projectId,
               assigneeId |-> IF body.assigneeId = Absent THEN NULL ELSE body.assigneeId,
               dueDate |-> createTaskDueDate(body)]})
    [] op = "updateTask" ->
         Res(200, "Task updated successfully",
             {updatedTask(t, body) : t \in {x \in tasks : x.id = id}})
    [] op = "updateTaskStatus" ->
         Res(200, "Task status updated successfully",
             {[t EXCEPT !.status = body.status] : t \in {x \in tasks : x.id = id}})
    [] op = "deleteTask" -> Res(200, "Task deleted successfully", {})
    [] op = "addComment" ->
         Res(201, "Comment added successfully",
             {[id |-> nextId.comment + 1, content |-> body.content,
               taskId |-> id, authorId |-> userId]})

\* await prisma.task.findFirst (createTask: prisma.project.findFirst)
TaskWriteFindFirst(c, op, userId, id, body) ==
  LET res == taskWriteFindFirst(op, userId, id, body) IN
  /\ pending[c].pc \in {"idle", "done"}
  /\ IF res.status \notin {200, 201}
       THEN TaskAnswer(c, op, userId, id, "none", res)
       ELSE /\ pending' = [pending EXCEPT ![c] = TaskCall(op, userId, id, body)]
            /\ UNCHANGED last
  /\ UNCHANGED <<store, users, notifications>>

\* await prisma.task.create, update or delete, or prisma.comment.create
TaskWriteCommit(c) ==
  LET call == pending[c]
      err == taskWriteError(call.op, call.id, call.body)
      res == IF err = "ok" THEN taskWrite(call.op, call.userId, call.id, call.body)
                           ELSE errorHandler(err) IN
  /\ call.pc = "write"
  /\ (err = "ok" /\ call.op \in {"createTask", "addComment"}) => Room
  /\ tasks' = IF err # "ok" THEN tasks
              ELSE IF call.op = "createTask" THEN tasks \cup res.data
              ELSE IF call.op \in {"updateTask", "updateTaskStatus"}
                THEN {t \in tasks : t.id # call.id} \cup res.data
              ELSE IF call.op = "deleteTask" THEN {t \in tasks : t.id # call.id}
              ELSE tasks
  /\ comments' = IF err # "ok" THEN comments
                 ELSE IF call.op = "addComment" THEN comments \cup res.data
                 ELSE IF call.op = "deleteTask" THEN cascadeTask(call.id)
                 ELSE comments
  /\ nextId' = IF err # "ok" THEN nextId
               ELSE IF call.op = "createTask" THEN [nextId EXCEPT !.task = @ + 1]
               ELSE IF call.op = "addComment" THEN [nextId EXCEPT !.comment = @ + 1]
               ELSE nextId
  /\ TaskAnswer(c, call.op, call.userId, call.id, err, res)
  /\ UNCHANGED <<projects, projectMembers, users, notifications>>

\* the task writes of the invited user, against the owner's removals
TaskWrites(id) ==
  { <<"updateTask", id, b>> : b \in {x \in UpdateTaskBodies : x.status = "DONE"} }
  \cup { <<"updateTaskStatus", id, [status |-> "DONE"]>>, <<"deleteTask", id, [status |-> Absent]>> }
  \cup { <<"addComment", id, b>> : b \in {x \in CommentBodies : ~addCommentEmpty(x)} }

NextTaskRace ==
  \/ CreateProject("u1", AppBody)
  \/ \E id \in ProjectIds : DeleteProject("u1", id)
  \/ \E id \in ProjectIds, b \in MemberBodies({"u2"}) : AddMember("u1", id, b)
  \/ \E id \in ProjectIds, m \in MemberIds : RemoveMember("u1", id, m)
  \/ \E b \in {x \in CreateTaskBodies : x.assigneeId = Absent} : CreateTask("u1", b)
  \/ \E id \in TaskIds : DeleteTask("u1", id)
  \/ \E c \in 1..MaxCalls, id \in TaskIds : \E w \in TaskWrites(id) :
       TaskWriteFindFirst(c, w[1], "u2", w[2], w[3])
  \/ \E c \in 1..MaxCalls, b \in {x \in CreateTaskBodies : x.assigneeId = Absent} :
       TaskWriteFindFirst(c, "createTask", "u2", BadId, b)
  \/ \E c \in 1..MaxCalls : TaskWriteCommit(c)

SpecTaskRace == Init /\ [][NextTaskRace]_vars

\* ================================================================== claims
\* what the specification calls "U is owner or has a Membership row for P"
OwnerOrMember(u, p) ==
  \/ p.ownerId = u
  \/ \E m \in projectMembers : m.projectId = p.id /\ m.userId = u

Unfiltered(u) == getProjects(u, Absent, <<>>).data

\* C1: for every user U and project P, getProjects by U without query filters
\* returns P if and only if U owns P or a Membership row (P, U) exists.
C1_ListedIffOwnerOrMember ==
  \A u \in Users :
    /\ Unfiltered(u) \subseteq projects
    /\ \A p \in projects : p \in Unfiltered(u) <=> OwnerOrMember(u, p)

\* a list that holds a project its reader joined and lacks another project
C1_Witness ==
  /\ last.op = "getProjects"
  /\ last.res.data = Unfiltered(last.userId)
  /\ \E p \in last.res.data : p.ownerId # last.userId
  /\ \E q \in projects : q \notin last.res.data

\* C2: whatever status and search a getProjects query carries, the projects
\* returned are among those the user owns or is a member of.
C2_FiltersOnlyNarrow ==
  \A u \in Users, st \in ProjectStatuses \cup {Absent}, s \in Searches :
    \A p \in getProjects(u, st, s).data : OwnerOrMember(u, p)

AlreadyMember == Res(400, "User is already a member of this project", {})

PairRows(id, u) == {m \in projectMembers : m.projectId = id /\ m.userId = u}

\* C8: the owner's addMember for a pair without a row succeeds and adds one
\* row; for a pair with a row it is answered "already a member" and adds
\* nothing; no pair ever has two rows.
C8_SecondAddRejected ==
  /\ \A p \in projects, u \in Users : Cardinality(PairRows(p.id, u)) <= 1
  /\ \A p \in projects, b \in MemberBodies(Users) :
       LET res == addMember(p.ownerId, p.id, b) IN
       IF PairRows(p.id, b.userId) = {}
         THEN /\ res.status = 201
              /\ \E m \in res.data :
                   /\ res.data = {m}
                   /\ m.projectId = p.id /\ m.userId = b.userId
                   /\ m.id \notin {x.id : x \in projectMembers}
         ELSE res = AlreadyMember
  /\ (last.op = "addMember" /\ last.res.status = 201) =>
       \A m \in last.res.data :
         /\ PairRows(m.projectId, m.userId) = {m}
         /\ addMember(last.userId, last.id, [userId |-> m.userId, role |-> Absent])
              = AlreadyMember

\* the second of two addMember calls for one pair has been answered
C8_Witness ==
  /\ last.op = "addMember"
  /\ last.res = AlreadyMember
  /\ \E p \in projects :
       p.id = last.id /\ p.ownerId = last.userId /\ \E u \in Users : PairRows(p.id, u) # {}

\* the answers to a user who is not the project's owner
C10_NotFound ==
  \A p \in projects : \A u \in Users \ {p.ownerId} :
    /\ \A b \in UpdateProjectBodies \cup {[name |-> Some(App), status |-> "ARCHIVED", ownerId |-> Absent]} :
         updateProject(u, p.id, b).status = IF updateProjectSchema(b) THEN 404 ELSE 400
    /\ deleteProject(u, p.id).status = 404
    /\ \A b \in MemberBodies(Users \cup {Absent}) : addMember(u, p.id, b).status = 404

C10_ByNonOwner ==
  /\ last'.op \in {"updateProject", "deleteProject", "addMember"}
  /\ \E p \in projects : p.id = last'.id /\ p.ownerId # last'.userId

\* C10: updateProject, deleteProject and addMember by a user who is not the
\* project's owner (a member included) are answered 404 (the update: once its
\* body passes the schema, 400 before that) and change no stored row.
C10_OwnerOnlyMutation ==
  /\ []C10_NotFound
  /\ [][C10_ByNonOwner => UNCHANGED store]_vars

\* a member who is not the owner has been refused an update
C10_Witness ==
  /\ last.op = "updateProject"
  /\ last.res.status = 404
  /\ \E p \in projects :
       p.id = last.id /\ p.ownerId # last.userId /\ PairRows(p.id, last.userId) # {}

ProjectOf(t) == {p \in projects : p.id = t.projectId}

CanSeeTask(u, t) == \E p \in ProjectOf(t) : OwnerOrMember(u, p)

AllTasksOf(u) == getTasks(u, BadId, Absent, Absent, Absent).data

\* C3: whatever projectId, status, priority and assigneeId a getTasks query
\* carries, every task returned lies in a project the user owns or is a member
\* of, and is also returned to that user by the query without filters.
C3_TaskFiltersOnlyNarrow ==
  \A u \in Users, pid \in ProjectIds \cup {BadId}, st \in {Absent, "TODO", "DONE"},
     pr \in {Absent, "HIGH", "LOW"}, a \in Users \cup {Absent} :
    LET listed == getTasks(u, pid, st, pr, a).data IN
    /\ listed \subseteq AllTasksOf(u)
    /\ \A t \in listed : t \in tasks /\ CanSeeTask(u, t)

\* a filtered list that is smaller than the unfiltered one, and not empty
C3_Witness ==
  /\ last.op = "getTasks"
  /\ last.res.data # {}
  /\ last.res.data # AllTasksOf(last.userId)
  /\ last.res.data \subseteq tasks

\* the request bodies the claims range over, well-formed and malformed
AnyUpdateProjectBody ==
  UpdateProjectBodies \cup {[name |-> Some(App), status |-> "ARCHIVED", ownerId |-> Absent]}

AnyCreateTaskBody(pid) ==
  { [title |-> t, projectId |-> pid, priority |-> "HIGH", dueDate |-> None,
      assigneeId |-> a] :
      t \in {Title, <<"F">>}, a \in Users \cup {Absent, NoUser} }

AnyUpdateTaskBody ==
  { [title |-> t, status |-> st, priority |-> Absent, assigneeId |-> a] :
      t \in {None, Some(<<"F">>)}, st \in {Absent, "DONE", "CLOSED"},
      a \in Users \cup {Absent, NULL, NoUser} }

AnyStatusBody == { [status |-> st] : st \in TaskStatuses \cup {"CLOSED", Absent} }

AnyCommentBody ==
  { [content |-> c] : c \in { <<"o", "k">>, <<" ", "o", " ">>, <<" ">>, <<>> } }

Answered(valid, res) == [valid |-> valid, status |-> res.status]

\* every request by u that addresses project p or a task under it: whether
\* its body passes the handler's validation, and the status it is given
AddressedTo(u, p) ==
  {Answered(TRUE, getProject(u, p.id)), Answered(TRUE, deleteProject(u, p.id))}
  \cup {Answered(updateProjectSchema(b), updateProject(u, p.id, b)) :
          b \in AnyUpdateProjectBody}
  \cup {Answered(TRUE, addMember(u, p.id, b)) : b \in MemberBodies(Users \cup {Absent})}
  \cup {Answered(TRUE, removeMember(u, p.id, m)) : m \in MemberIds}
  \cup {Answered(createTaskSchema(b), createTask(u, b)) : b \in AnyCreateTaskBody(p.id)}
  \cup UNION { {Answered(TRUE, getTask(u, t.id)), Answered(TRUE, deleteTask(u, t.id))}
               \cup {Answered(updateTaskSchema(b), updateTask(u, t.id, b)) :
                       b \in AnyUpdateTaskBody}
               \cup {Answered(b.status \in TaskStatuses, updateTaskStatus(u, t.id, b)) :
                       b \in AnyStatusBody}
               \cup {Answered(~addCommentEmpty(b), addComment(u, t.id, b)) :
                       b \in AnyCommentBody} :
               t \in tasksOfProject(p.id) }

C5_TaskReadIffVisible ==
  /\ \A u \in Users, t \in tasks :
       getTask(u, t.id) = IF CanSeeTask(u, t) THEN Res(200, "", {t})
                                              ELSE Res(404, "Task not found", {})
  /\ \A u \in Users : getTask(u, nextId.task + 1).status = 404
  /\ (last.op = "createTask" /\ last.res.status = 201) =>
       \A t \in last.res.data :
         /\ t \in tasks /\ t.status = "TODO"
         /\ \A u \in Users :
              CanSeeTask(u, t) => \A r \in getTask(u, t.id).data : r = t

\* a member has created a task assigned to the owner; a third user sees none
C5_Witness ==
  /\ last.op = "createTask" /\ last.res.status = 201
  /\ \E t \in last.res.data, p \in projects :
       /\ p.id = t.projectId /\ p.ownerId # last.userId /\ t.assigneeId = p.ownerId
       /\ getTask(last.userId, t.id).status = 200
       /\ \E x \in Users : getTask(x, t.id).status = 404

\* the answers to createTask with an assignee, under a project the actor sees
C6_Answer ==
  \A p \in projects, u \in Users :
    OwnerOrMember(u, p) =>
      \A b \in AnyCreateTaskBody(p.id) :
        LET res == createTask(u, b)
            inside == b.assigneeId \in Users /\ OwnerOrMember(b.assigneeId, p) IN
        b.assigneeId # Absent =>
          /\ (inside /\ createTaskSchema(b)) =>
               /\ res.status = 201
               /\ \E t \in res.data :
                    /\ res.data = {t}
                    /\ t.projectId = p.id /\ t.assigneeId = b.assigneeId
                    /\ t.id \notin {x.id : x \in tasks}
          /\ ~inside => res.status = 400 /\ res.data = {}
          /\ res.status = 201 => inside

C6_Effect ==
  last'.op = "createTask" =>
    tasks' = tasks \cup (IF last'.res.status = 201 THEN last'.res.data ELSE {})

\* C6: createTask under a project the actor can see, with assigneeId = A:
\* when A is owner or member (and the body is well-formed) one task row is
\* created; when A is neither, the answer is 400, not 404, and no task is
\* created; a task is created only when A is owner or member.
C6_AssigneeMustParticipate == []C6_Answer /\ [][C6_Effect]_vars

\* a well-formed createTask was refused for its assignee
C6_Witness ==
  /\ last.op = "createTask"
  /\ last.res = Res(400, "Assignee does not have access to this project", {})
  /\ \E p \in projects : OwnerOrMember(last.userId, p)

\* C7: the assignee of every task is the owner of the task's project or has
\* a Membership row for it.
C7_AssigneeIsParticipant ==
  \A t \in tasks :
    t.assigneeId # NULL => \E p \in ProjectOf(t) : OwnerOrMember(t.assigneeId, p)

\* C9: no pair has two rows, and a call whose insert the store rejected as a
\* duplicate is answered with the "already a member" error.
C9_LoserToldAlreadyMember ==
  /\ \A p \in projects, u \in Users : Cardinality(PairRows(p.id, u)) <= 1
  /\ \A c \in 1..MaxCalls :
       (pending[c].pc = "done" /\ pending[c].err = "P2002") =>
         pending[c].res = AlreadyMember

\* C11: a successful removeMember deletes Membership rows only of projects
\* that the actor owns, whatever projectId and memberId the request names.
C11_RemovalOnlyInOwnedProject ==
  [][last'.op = "removeMember" =>
       \A m \in projectMembers \ projectMembers' :
         \E p \in projects : p.id = m.projectId /\ p.ownerId = last'.userId]_vars

OnlyStatus(st) == [title |-> None, status |-> st, priority |-> Absent, assigneeId |-> Absent]

\* the answers to a participant's status change, for every current and
\* every target status
C12_Answer ==
  \A t \in tasks, u \in Users :
    CanSeeTask(u, t) =>
      \A st \in TaskStatuses :
        /\ updateTaskStatus(u, t.id, [status |-> st])
             = Res(200, "Task status updated successfully", {[t EXCEPT !.status = st]})
        /\ updateTask(u, t.id, OnlyStatus(st))
             = Res(200, "Task updated successfully", {[t EXCEPT !.status = st]})

C12_Effect ==
  (last'.op \in {"updateTaskStatus", "updateTask"} /\ last'.res.status = 200) =>
    /\ last'.res.data \subseteq tasks'
    /\ {t.id : t \in tasks'} = {t.id : t \in tasks}
    /\ \A t \in tasks' : t.id # last'.id => t \in tasks

\* C12: updateTaskStatus, and updateTask with a status field, by an owner or
\* member of the task's project is accepted for every current status and every
\* target status among TODO, IN_PROGRESS, IN_REVIEW and DONE, and leaves the
\* task with the target status: backward moves and skips included.
C12_AnyTransitionAccepted == []C12_Answer /\ [][C12_Effect]_vars

\* a member who is not the owner has set a task's status to TODO, the first
\* of the four, by a status change
C12_Witness ==
  /\ last.op = "updateTaskStatus" /\ last.res.status = 200
  /\ \E t \in last.res.data, p \in projects :
       /\ t \in tasks /\ t.status = "TODO"
       /\ p.id = t.projectId /\ p.ownerId # last.userId

\* the answers to a participant's well-formed writes to a task
C13_Answer ==
  \A t \in tasks, u \in Users :
    CanSeeTask(u, t) =>
      /\ \A b \in AnyUpdateTaskBody :
           updateTaskSchema(b) =>
             updateTask(u, t.id, b)
               = Res(200, "Task updated successfully", {updatedTask(t, b)})
      /\ \A b \in AnyStatusBody :
           b.status \in TaskStatuses => updateTaskStatus(u, t.id, b).status = 200
      /\ deleteTask(u, t.id) = Res(200, "Task deleted successfully", {})
      /\ \A b \in AnyCommentBody :
           ~addCommentEmpty(b) =>
             LET res == addComment(u, t.id, b) IN
             /\ res.status = 201
             /\ \A c \in res.data : c.taskId = t.id /\ c.authorId = u
             /\ res.data # {}

C13_Effect ==
  /\ (last'.op \in {"updateTask", "updateTaskStatus"} /\ last'.res.status = 200) =>
       /\ last'.res.data \subseteq tasks'
       /\ \A t \in tasks' : t.id = last'.id => t \in last'.res.data
  /\ (last'.op = "deleteTask" /\ last'.res.status = 200) =>
       /\ tasks' = {t \in tasks : t.id # last'.id}
       /\ tasks' # tasks
  /\ (last'.op = "addComment" /\ last'.res.status = 201) =>
       /\ comments' = comments \cup last'.res.data
       /\ comments' # comments

\* C13: updateTask, updateTaskStatus, deleteTask and addComment with
\* well-formed input, by any owner or member of the task's project, succeed
\* and take effect, whether or not the actor is the task's assignee or the
\* project's owner.
C13_ParticipantMayMutate == []C13_Answer /\ [][C13_Effect]_vars

\* a member who is neither the project's owner nor the task's assignee has
\* changed the status of a task
C13_Witness ==
  /\ last.op = "updateTaskStatus" /\ last.res.status = 200
  /\ \E t \in tasks, p \in projects :
       /\ t.id = last.id /\ p.id = t.projectId
       /\ p.ownerId # last.userId /\ t.assigneeId # last.userId

\* what the four reads return to user v
ReadsOf(v) ==
  [getProjects |-> getProjects(v, Absent, <<>>),
   getProject |-> [id \in 1..MaxRows |-> getProject(v, id)],
   getTasks |-> getTasks(v, BadId, Absent, Absent, Absent),
   getTask |-> [id \in 1..MaxRows |-> getTask(v, id)]]

\* C14: a deleteUser by U sets the isActive flag of U's row to false and
\* changes nothing else: the row is still stored, every project, membership,
\* task and comment is unchanged, and getProject, getProjects, getTask and
\* getTasks return to every user what they returned before.
C14_OnlyDeactivates ==
  [][last'.op = "deleteUser" =>
       /\ last'.res.status = 200
       /\ \E r \in users :
            /\ r.id = last'.userId
            /\ users' = (users \ {r}) \cup {[r EXCEPT !.isActive = FALSE]}
       /\ <<projects, projectMembers, tasks, comments>>'
            = <<projects, projectMembers, tasks, comments>>
       /\ \A v \in Users : ReadsOf(v)' = ReadsOf(v)]_vars

\* a user who owns a project and wrote a comment has deactivated their
\* account; the project is still listed for them as owner
C14_Witness ==
  /\ last.op = "deleteUser" /\ last.res.status = 200
  /\ \E r \in users : r.id = last.userId /\ ~r.isActive
  /\ \E p \in projects, c \in comments :
       /\ p.ownerId = last.userId /\ c.authorId = last.userId
       /\ p \in getProjects(last.userId, Absent, <<>>).data

AccountOps == {"updateUser", "changePassword", "deleteUser"}

\* the rows that updateUser returns are the actor's, whatever the body
C15_Answer ==
  \A a \in Users :
    /\ \A b \in UpdateUserBodies : \A r \in updateUser(a, b).data : r.id = a
    /\ \A x \in getUserStats(a).data :
         /\ x.totalProjects = Cardinality({p \in projects : OwnerOrMember(a, p)})
         /\ x.totalTasks
              = Cardinality({t \in tasks : t.assigneeId = a \/ CanSeeTask(a, t)})

C15_Effect ==
  /\ last'.op \in AccountOps =>
       /\ \A r \in users : r.id # last'.userId => r \in users'
       /\ {r.id : r \in users'} = {r.id : r \in users}
       /\ Cardinality(users') = Cardinality(users)
       /\ (last'.res.status # 200 => users' = users)
  /\ last'.op = "getUserStats" => last'.res = getUserStats(last'.userId) /\ users' = users

\* C15: updateUser, changePassword and deleteUser change no row of the users
\* table but the actor's, whatever the request body (a body that names another
\* user included) and whatever the actor's role; getUserStats reports the
\* figures of the actor.
C15_ScopedToActor == []C15_Answer /\ [][C15_Effect]_vars

\* the admin has renamed their account and a user has changed their password;
\* the third account is as it was created
C15_Witness ==
  /\ last.op \in AccountOps /\ last.res.status = 200
  /\ \E r \in users : r.id = "u1" /\ r.role = "ADMIN" /\ r.firstName = Al
  /\ \E r \in users : r.id = "u2" /\ r.role = "USER" /\ r.password = hash(password124)
  /\ seedUser("u3", Jane, "USER") \in users

\* C16: the tasks that getTasks and getTask return to U and the tasks that
\* getUserStats counts for U lie in projects U owns or is a member of; the
\* figures of getUserStats are the numbers of tasks that getTasks returns to U
\* without filters, in total and for each status.
C16_TaskQueriesFollowVisibility ==
  \A u \in Users :
    /\ \A t \in AllTasksOf(u) : CanSeeTask(u, t)
    /\ \A t \in tasks : getTask(u, t.id).status = 200 => CanSeeTask(u, t)
    /\ \A x \in getUserStats(u).data :
         /\ x.totalTasks = Cardinality(AllTasksOf(u))
         /\ \A st \in TaskStatuses :
              x.tasksByStatus[st] = Cardinality({t \in AllTasksOf(u) : t.status = st})

\* the rows user u is entitled to see: the projects u owns or is a member of,
\* with their memberships, tasks and comments
VisibleTo(u) ==
  [projects |-> {p \in projects : OwnerOrMember(u, p)},
   projectMembers |->
     {m \in projectMembers :
        \E p \in projects : p.id = m.projectId /\ OwnerOrMember(u, p)},
   tasks |-> {t \in tasks : CanSeeTask(u, t)},
   comments |-> {c \in comments : \E t \in tasks : t.id = c.taskId /\ CanSeeTask(u, t)}]

AnyId == 1..(MaxRows + 1)

Told(id, arg, res) == <<id, arg, res.status, res.message>>

\* the status and message of every response to a request of u that names a
\* project or a task by id
ResponsesTo(u) ==
  [getProject |-> {Told(id, 0, getProject(u, id)) : id \in AnyId},
   updateProject |->
     {Told(id, b, updateProject(u, id, b)) : id \in AnyId, b \in AnyUpdateProjectBody},
   deleteProject |-> {Told(id, 0, deleteProject(u, id)) : id \in AnyId},
   addMember |->
     {Told(id, b, addMember(u, id, b)) : id \in AnyId, b \in MemberBodies(Users)},
   removeMember |->
     {Told(id, m, removeMember(u, id, m)) : id \in AnyId, m \in AnyId},
   createTask |->
     UNION {{Told(id, b, createTask(u, b)) : b \in AnyCreateTaskBody(id)} : id \in AnyId},
   getTask |-> {Told(id, 0, getTask(u, id)) : id \in AnyId},
   updateTask |->
     {Told(id, b, updateTask(u, id, b)) : id \in AnyId, b \in AnyUpdateTaskBody},
   updateTaskStatus |->
     {Told(id, b, updateTaskStatus(u, id, b)) : id \in AnyId, b \in AnyStatusBody},
   deleteTask |-> {Told(id, 0, deleteTask(u, id)) : id \in AnyId},
   addComment |->
     {Told(id, b, addComment(u, id, b)) : id \in AnyId, b \in AnyCommentBody}]

\* C17: a step that changes no row a user is entitled to see changes the
\* status and message of none of the responses to that user's requests that
\* name a project or a task by id: a resource the user may not see is
\* answered as a resource that does not exist.
C17_SameResponseWhenUnseen ==
  [][\A u \in Users : VisibleTo(u)' = VisibleTo(u) => ResponsesTo(u)' = ResponsesTo(u)]_vars

NonEmptyTrimmed(content) == Len(trim(content)) > 0

\* addComment answers 201, with one row of the task and the actor, exactly
\* to a participant who supplies content that is not blank
C18_Answer ==
  \A id \in TaskIds, u \in Users, b \in AnyCommentBody :
    LET res == addComment(u, id, b) IN
    /\ res.status = 201 <=>
         /\ \E t \in tasks : t.id = id /\ CanSeeTask(u, t)
         /\ NonEmptyTrimmed(b.content)
    /\ res.status = 201 =>
         \E c \in res.data :
           /\ res.data = {c} /\ c.taskId = id /\ c.authorId = u /\ c.content = b.content
           /\ c.id \notin {x.id : x \in comments}
    /\ res.status # 201 => res.data = {}

C18_Stored == \A c \in comments : NonEmptyTrimmed(c.content)

\* a comment row comes from an addComment by its author, who is then owner or
\* member of the task's project
C18_Effect ==
  /\ last'.op = "addComment" =>
       comments' = comments \cup (IF last'.res.status = 201 THEN last'.res.data ELSE {})
  /\ \A c \in comments' \ comments :
       /\ last'.op = "addComment" /\ c.authorId = last'.userId /\ c.taskId = last'.id
       /\ \E t \in tasks : t.id = c.taskId /\ CanSeeTask(c.authorId, t)

\* C18: addComment on a task creates a Comment row of that task and the actor
\* if and only if the actor is owner or member of the task's project and the
\* content is non-empty after trimming; every stored comment has content that
\* is non-empty after trimming and was written by a user who was owner or
\* member of the task's project at that time.
C18_CommentsByParticipants == []C18_Answer /\ []C18_Stored /\ [][C18_Effect]_vars

\* a comment has been stored for a participant after a blank one could not be
C18_Witness ==
  /\ last.op = "addComment" /\ last.res.status = 201
  /\ last.res.data \subseteq comments
  /\ \E t \in tasks : t.id = last.id /\ CanSeeTask(last.userId, t)
  /\ addComment(last.userId, last.id, [content |-> <<" ">>]).status = 400

\* every child row references a stored parent row
C19_References ==
  /\ \A t \in tasks : \E p \in projects : p.id = t.projectId
  /\ \A m \in projectMembers : \E p \in projects : p.id = m.projectId
  /\ \A c \in comments : \E t \in tasks : t.id = c.taskId

C19_Effect ==
  /\ (last'.op = "deleteProject" /\ last'.res.status = 200) =>
       /\ projects' = {p \in projects : p.id # last'.id} /\ projects' # projects
       /\ projectMembers' = {m \in projectMembers : m.projectId # last'.id}
       /\ tasks' = {t \in tasks : t.projectId # last'.id}
       /\ comments' = {c \in comments :
                         \A t \in tasks : t.id = c.taskId => t.projectId # last'.id}
  /\ (last'.op = "deleteTask" /\ last'.res.status = 200) =>
       /\ tasks' = {t \in tasks : t.id # last'.id} /\ tasks' # tasks
       /\ comments' = {c \in comments : c.taskId # last'.id}
       /\ UNCHANGED <<projects, projectMembers>>

\* C19: every task and every membership references a stored project and
\* every comment a stored task; a successful deleteProject removes the project
\* with its memberships, its tasks and their comments, a successful deleteTask
\* the task with its comments.
C19_NoOrphans == []C19_References /\ [][C19_Effect]_vars

\* the owner has deleted the one project there was, after a task and a
\* comment were created under it; no row is left
C19_Witness ==
  /\ last.op = "deleteProject" /\ last.res.status = 200
  /\ nextId.project = 1 /\ nextId.task = 1 /\ nextId.comment = 1
  /\ projects = {} /\ tasks = {} /\ comments = {}

\* status ascending (the order of the life cycle), then priority descending
\* (URGENT, HIGH, MEDIUM, LOW), then due date ascending, without a date last
StatusRank(st) ==
  CASE st = "TODO" -> 1 [] st = "IN_PROGRESS" -> 2 [] st = "IN_REVIEW" -> 3 [] st = "DONE" -> 4

PriorityRank(pr) ==
  CASE pr = "URGENT" -> 4 [] pr = "HIGH" -> 3 [] pr = "MEDIUM" -> 2 [] pr = "LOW" -> 1

InTaskOrder(a, b) ==
  /\ StatusRank(a.status) <= StatusRank(b.status)
  /\ StatusRank(a.status) = StatusRank(b.status) =>
       /\ PriorityRank(a.priority) >= PriorityRank(b.priority)
       /\ PriorityRank(a.priority) = PriorityRank(b.priority) =>
            /\ a.dueDate = None => b.dueDate = None
            /\ (a.dueDate # None /\ b.dueDate # None) => a.dueDate[1] <= b.dueDate[1]

TasksSorted(list) == \A i \in 1..(Len(list) - 1) : InTaskOrder(list[i], list[i + 1])

ProjectsSorted(list) == \A i \in 1..(Len(list) - 1) : list[i].id > list[i + 1].id

\* C20: every sequence getTasks can return holds the matching tasks sorted by
\* status ascending, then priority descending (URGENT before HIGH before
\* MEDIUM before LOW), then due date ascending with the tasks without a due
\* date last; every sequence getProjects can return holds the projects from
\* the one created last to the one created first.
C20_ListsSorted ==
  /\ \A u \in Users :
       /\ \A list \in findManyOrdered(AllTasksOf(u), tasksOrderBy(tasks)) :
            TasksSorted(list) /\ {list[i] : i \in 1..Len(list)} = AllTasksOf(u)
       /\ findManyOrdered(AllTasksOf(u), tasksOrderBy(tasks)) # {}
       /\ \A list \in findManyOrdered(Unfiltered(u), projectsOrderBy(projects)) :
            ProjectsSorted(list) /\ {list[i] : i \in 1..Len(list)} = Unfiltered(u)
       /\ findManyOrdered(Unfiltered(u), projectsOrderBy(projects)) # {}
  /\ last.op = "getTasks" => TasksSorted(last.res.data)
  /\ last.op = "getProjects" => ProjectsSorted(last.res.data)

\* a list of two tasks of one status and one priority has been returned, the
\* task with a due date before the task without
C20_Witness ==
  /\ last.op = "getTasks"
  /\ Len(last.res.data) = 2
  /\ last.res.data[1].status = last.res.data[2].status
  /\ last.res.data[1].priority = last.res.data[2].priority
  /\ last.res.data[1].dueDate # None /\ last.res.data[2].dueDate = None
  /\ last.res.data[1].id > last.res.data[2].id

\* C21: the status of a project changes only in a successful updateProject of
\* that project by its owner; the task handlers, addMember, removeMember and
\* deleteUser leave the status of every project as it is, also when they
\* make every task of a project DONE.
C21_StatusOnlyByOwnerUpdate ==
  [][\A p \in projects : \A q \in projects' :
       (q.id = p.id /\ q.status # p.status) =>
         /\ last'.op = "updateProject" /\ last'.res.status = 200
         /\ last'.userId = p.ownerId /\ last'.id = p.id
         /\ q \in last'.res.data]_vars

\* a status change has made every task of a project DONE, and the project is
\* still ACTIVE
C21_Witness ==
  /\ last.op = "updateTaskStatus" /\ last.res.status = 200
  /\ \E p \in projects :
       /\ p.status = "ACTIVE"
       /\ tasksOfProject(p.id) # {}
       /\ \A t \in tasksOfProject(p.id) : t.status = "DONE"
       /\ \E t \in tasksOfProject(p.id) : t.id = last.id

\* the step assigns a task to a user, or completes a task
AssignsTask ==
  /\ last'.op \in {"createTask", "updateTask"} /\ last'.res.status \in {200, 201}
  /\ \E t \in last'.res.data :
       /\ t.assigneeId \in Users
       /\ \A old \in tasks : old.id = t.id => old.assigneeId # t.assigneeId

CompletesTask ==
  /\ last'.op \in {"updateTask", "updateTaskStatus"} /\ last'.res.status = 200
  /\ \E t \in last'.res.data :
       /\ t.status = "DONE"
       /\ \A old \in tasks : old.id = t.id => old.status # "DONE"

\* C22: a createTask or updateTask that assigns a task to a user, and a
\* status change that completes a task, add a Notification row for a user.
C22_NotifiesAssignmentAndCompletion ==
  [][(AssignsTask \/ CompletesTask) =>
       \E n \in notifications' \ notifications : n.userId \in Users]_vars

\* one row was inserted into, replaced in (under its id), or removed from a
\* table
Created(table, after) == \E x \in after : x \notin table /\ after = table \cup {x}

Updated(table, after, id) ==
  \E x \in table : \E y \in after : x.id = id /\ y.id = id /\ after = (table \ {x}) \cup {y}

Deleted(table, after) == \E x \in table : after = table \ {x}

Succeeded == last'.res.status \in {200, 201}

\* the tables but the one or ones named are as they were
OnlyProjects == UNCHANGED <<projectMembers, tasks, comments, users, notifications>>
OnlyMembers == UNCHANGED <<projects, tasks, comments, users, notifications>>
OnlyTasks == UNCHANGED <<projects, projectMembers, comments, users, notifications>>
OnlyComments == UNCHANGED <<projects, projectMembers, tasks, users, notifications>>
OnlyUsers == UNCHANGED <<projects, projectMembers, tasks, comments, notifications>>

C23_Effect ==
  /\ ~Succeeded =>
       UNCHANGED <<projects, projectMembers, tasks, comments, users, notifications>>
  /\ (Succeeded /\ last'.op = "createProject") => Created(projects, projects') /\ OnlyProjects
  /\ (Succeeded /\ last'.op = "updateProject") =>
       Updated(projects, projects', last'.id) /\ OnlyProjects
  /\ (Succeeded /\ last'.op = "deleteProject") =>
       /\ Deleted(projects, projects') /\ UNCHANGED <<users, notifications>>
       /\ projectMembers' = {m \in projectMembers : m.projectId # last'.id}
       /\ tasks' = {t \in tasks : t.projectId # last'.id}
       /\ comments' \subseteq comments
  /\ (Succeeded /\ last'.op = "addMember") =>
       Created(projectMembers, projectMembers') /\ OnlyMembers
  /\ (Succeeded /\ last'.op = "removeMember") =>
       Deleted(projectMembers, projectMembers') /\ OnlyMembers
  /\ (Succeeded /\ last'.op = "createTask") => Created(tasks, tasks') /\ OnlyTasks
  /\ (Succeeded /\ last'.op \in {"updateTask", "updateTaskStatus"}) =>
       Updated(tasks, tasks', last'.id) /\ OnlyTasks
  /\ (Succeeded /\ last'.op = "deleteTask") =>
       /\ Deleted(tasks, tasks')
       /\ comments' = {c \in comments : c.taskId # last'.id}
       /\ UNCHANGED <<projects, projectMembers, users, notifications>>
  /\ (Succeeded /\ last'.op = "addComment") => Created(comments, comments') /\ OnlyComments
  /\ (Succeeded /\ last'.op \in AccountOps) =>
       Updated(users, users', last'.userId) /\ OnlyUsers

\* C23: a request that is answered with an error (validation, not found, or
\* an error of the store) changes no project, membership, task, comment or
\* user; a request that is answered with success creates, updates or deletes
\* one row (a delete takes the rows that the row owns with it) and changes
\* nothing else.
C23_AllOrNothing == [][C23_Effect]_vars

\* the store has refused the owner's removal of a membership that does not
\* exist, while the project has a member
C23_Witness ==
  /\ last.op = "removeMember" /\ last.res = errorHandler("P2025")
  /\ \E p \in projects : p.id = last.id /\ p.ownerId = last.userId
  /\ projectMembers # {}

\* every project has one row and one owner, a user; createProject would
\* store the actor as the owner
C24_OneOwner ==
  /\ \A p \in projects :
       p.ownerId \in Users /\ Cardinality({q \in projects : q.id = p.id}) = 1
  /\ \A u \in Users : \A p \in createProject(u, AppBody).data : p.ownerId = u

C24_Effect ==
  /\ \A p \in projects : \A q \in projects' : q.id = p.id => q.ownerId = p.ownerId
  /\ \A q \in projects' :
       q.id \notin {p.id : p \in projects} =>
         last'.op = "createProject" /\ q.ownerId = last'.userId

\* C24: createProject stores the actor as the project's owner, and no
\* operation changes the owner of a project afterwards, whatever the body of
\* an updateProject: every project has exactly one owner, the user who
\* created it.
C24_OwnerIsCreator == []C24_OneOwner /\ [][C24_Effect]_vars

\* the owner has deactivated their account after an update whose body named
\* another user as ownerId; the project is still theirs
C24_Witness ==
  /\ last.op = "deleteUser" /\ last.res.status = 200
  /\ \E p \in projects : p.ownerId = last.userId /\ p.status = OwnerBody.status
  /\ \E r \in users : r.id = last.userId /\ ~r.isActive

\* what a task write in flight needs to see when its write is issued: the
\* task (createTask: the project), as owner or member of its project
VisibleAtWrite(call) ==
  IF call.op = "createTask"
    THEN createTaskProject(call.userId, call.body.projectId) # {}
    ELSE accessibleTask(call.userId, call.id) # {}

\* the write of call c is committed in this step
Commits(c) ==
  /\ pending[c].pc = "write"
  /\ pending'[c].pc = "done"
  /\ pending'[c].err = "ok"

C25_Step == \A c \in 1..MaxCalls : Commits(c) => VisibleAtWrite(pending[c])

====
